---- MODULE Spec2Model ----
(***************************************************************************)
(* Kira V1: the owner-gated command router (bot.py, ai_module.py), the     *)
(* account registry and chat aggregator (chat_manager.py) and the chat     *)
(* metadata store (utils.py), as one state machine.                        *)
(*                                                                         *)
(* Spec     the program: main() runs its startup steps while the transport *)
(*          delivers events; every event is dispatched to the registered   *)
(*          callbacks, each callback runs one await at a time.             *)
(* SpecAgg  MultiAccountManager driven through its public methods.         *)
(***************************************************************************)
EXTENDS Integers, Sequences, FiniteSets, TLC

\* ------------------------------------------------------------------ bounds
MaxEvents == 1     \* inbound events delivered in one run of Spec
MaxFailures == 1   \* calls that raise in one run of Spec, SpecSync or SpecExport
MaxNum == 1        \* largest number typed as a command argument
MaxCalls == 3      \* manager calls in one run of SpecAgg
MaxSyncs == 2      \* sync_chats_to_db calls started in one run of SpecSync
MaxExports == 1    \* .exportchats events delivered in one run of SpecExport
MaxArgLen == 3     \* characters in the argument of .choose
MaxMsgs == 4       \* largest message id of the chat a .purge is sent in
MaxChats == 2      \* records of the short aggregations given to .clearchats
MaxCommands == 2   \* owner commands delivered in one run of SpecLong

\* ------------------------------------------------------- identities, None
None == "None"
Me == "u1"            \* the identity the transport session is logged in as
Stranger == "u2"      \* any other identity
Ids == {Me, Stranger}

Min(a, b) == IF a < b THEN a ELSE b

\* ============================ chat metadata store (utils.py, sqlite) =====
\* CREATE TABLE chats: the only key is the AUTOINCREMENT primary key `id`.
ChatsKeys == {"id"}
\* CREATE TABLE accounts: primary key `id`, and account_id is UNIQUE.
AccountsKeys == {"id", "account_id"}

\* Two rows conflict when they agree on one of the table's keys.
Conflict(r1, r2, keys) == \E k \in keys : r1[k] = r2[k]

\* INSERT OR REPLACE: rows in conflict with the new row are deleted, then
\* the new row is stored. No id is supplied by either statement, so the row
\* is stored under the next AUTOINCREMENT id, which no stored row has.
InsertOrReplace(table, row, keys, next_id) ==
  LET new == [row EXCEPT !.id = next_id]
  IN Append(SelectSeq(table, LAMBDA r : ~Conflict(r, new, keys)), new)

\* UPDATE accounts SET last_sync = ? WHERE account_id = ?
UpdateLastSync(table, acc_id, now) ==
  [i \in 1..Len(table) |->
     IF table[i].account_id = acc_id
     THEN [table[i] EXCEPT !.last_sync = now] ELSE table[i]]

\* ======================= transport: the dialogs of the logged-in session ==
\* A value that is None or "" is falsy for Python's `or` and `if`.
Absent == "<absent>"     \* the attribute does not exist on the object
Falsy(x) == x = None \/ x = ""

\* A datetime: wall is its wall-clock reading, tz its zone ("naive": no
\* tzinfo). NoDate stands for dialog.date being None.
NoDate == [present |-> FALSE, wall |-> 0, tz |-> "naive"]
At(wall, tz) == [present |-> TRUE, wall |-> wall, tz |-> tz]

\* The classes an entity of a dialog can be of; only User, Chat and Channel
\* are imported by chat_manager.py. No one of them derives from another.
EntityTypes == {"User", "Chat", "Channel", "ChatForbidden", "ChannelForbidden"}
IsInstance(entity, cls) == entity.type = cls

\* Every registration stores main_client as its client, so every listing
\* asks the same session for its dialogs.
Dialogs == << [id |-> "c1", name |-> "Alice",
               entity |-> [type |-> "User", title |-> Absent],
               date |-> At(5, "utc")],
              [id |-> "c2", name |-> "Team",
               entity |-> [type |-> "Chat", title |-> "Team"],
               date |-> NoDate] >>

PageCap == 100

Take(s, n) == SubSeq(s, 1, Min(n, Len(s)))

\* client.get_dialogs(limit=n)
GetDialogs(n) == Take(Dialogs, n)

\* How one account's listing goes: no error, get_dialogs raises, or the
\* loop body raises while it handles the k-th dialog.
FailModes == {[kind |-> "none", k |-> 0], [kind |-> "request", k |-> 0]}
             \cup {[kind |-> "dialog", k |-> k] : k \in 1..Len(Dialogs)}
NoFail == [kind |-> "none", k |-> 0]

\* ==================== MultiAccountManager (chat_manager.py) ==============
\* Lines 80-81 with the zone kept: not the program's, kept to show what the
\* property of naive timestamps rests on.
StripZoneKeep(d) == d
\* Lines 80-81: last_date.replace(tzinfo=None) when the date carries a zone;
\* the wall-clock reading stays as it is.
StripZone(d) ==
  IF d.present /\ d.tz # "naive" THEN [d EXCEPT !.tz = "naive"] ELSE d

\* Line 87: dialog.name or getattr(chat, 'title', 'Unknown')
Title(dialog) ==
  IF ~Falsy(dialog.name) THEN dialog.name
  ELSE IF dialog.entity.title = Absent THEN "Unknown"
  ELSE dialog.entity.title

\* chat_data of one dialog (lines 77-99)
ChatData(acc_id, account, dialog) ==
  [account_id |-> acc_id, account_name |-> account.name,
   chat_id |-> dialog.id, title |-> Title(dialog),
   type |-> dialog.entity.type,
   last_message_date |-> StripZone(dialog.date),
   is_user |-> IsInstance(dialog.entity, "User"),
   is_channel |-> IsInstance(dialog.entity, "Channel"),
   is_group |-> IsInstance(dialog.entity, "Chat")]

\* The page size without the cap: not the program's, kept to show what the
\* property of the page size rests on.
PageSizeAsked(limit) == limit
\* Line 74: limit=min(limit, 100)
PageSize(limit) == Min(limit, PageCap)

\* The records one account adds to all_chats: the try block of lines 73-113
\* appends to all_chats one dialog at a time, and the except clause only
\* prints, so what was appended before the error stays.
AccountChats(acc_id, account, limit, f) ==
  LET page == GetDialogs(PageSize(limit))
      n == IF f.kind = "request" THEN 0
           ELSE IF f.kind = "dialog" /\ f.k <= Len(page) THEN f.k - 1
           ELSE Len(page)
  IN [j \in 1..n |-> ChatData(acc_id, account, page[j])]

\* Did the listing of this account raise?
Failed(f, limit) ==
  \/ f.kind = "request"
  \/ f.kind = "dialog" /\ f.k <= Len(GetDialogs(PageSize(limit)))

\* The loop with the later accounts' records first: not the program's, kept
\* to show what the property of the order rests on.
RECURSIVE ListFromRev(_, _, _, _, _)
ListFromRev(accts, to_check, limit, fail, i) ==
  IF i > Len(to_check) THEN <<>>
  ELSE LET acc_id == to_check[i]
           recs == IF acc_id \in DOMAIN accts
                   THEN AccountChats(acc_id, accts[acc_id], limit, fail[i])
                   ELSE <<>>
       IN ListFromRev(accts, to_check, limit, fail, i + 1) \o recs

\* The loop of lines 70-113 over accounts_to_check from position i on.
RECURSIVE ListFrom(_, _, _, _, _)
ListFrom(accts, to_check, limit, fail, i) ==
  IF i > Len(to_check) THEN <<>>
  ELSE LET acc_id == to_check[i]
           recs == IF acc_id \in DOMAIN accts
                   THEN AccountChats(acc_id, accts[acc_id], limit, fail[i])
                   ELSE <<>>
       IN recs \o ListFrom(accts, to_check, limit, fail, i + 1)

\* get_all_chats(account_id=None, limit=50); fail[i] is how the listing of
\* the i-th checked account goes.
GetAllChats(accts, active, account_id, limit, fail) ==
  LET to_check == IF account_id # None THEN <<account_id>> ELSE active
  IN ListFrom(accts, to_check, limit, fail, 1)

\* The get_dialogs calls one get_all_chats makes: one per checked account
\* that is registered (line 71).
Requests(accts, to_check) ==
  Cardinality({i \in DOMAIN to_check : to_check[i] \in DOMAIN accts})

\* me.first_name of an identity ("" when the profile has none)
FirstName(me) == IF me = Me THEN "Tom" ELSE ""

\* acc_name = account_name or me.first_name or "Main Account"
AccName(account_name, me) ==
  IF account_name # None /\ account_name # "" THEN account_name
  ELSE IF FirstName(me) # "" THEN FirstName(me) ELSE "Main Account"

\* add_account(session_name, api_id, api_hash, account_name). `me` is what
\* main_client.get_me() answers; outcome "get_me" is get_me raising,
\* "store" is a sqlite call of lines 48-56 raising. mgr is the manager's
\* fields, dbs the store; the result carries both and the returned value.
AddAccount(mgr, dbs, me, account_name, outcome, now) ==
  IF outcome = "get_me" THEN [mgr |-> mgr, db |-> dbs, ret |-> None]
  ELSE
    LET acc_name == AccName(account_name, me)
        info == [name |-> acc_name, user_id |-> me, is_main |-> TRUE]
        mgr2 == [accounts |-> (me :> info) @@ mgr.accounts,
                 active_accounts |-> Append(mgr.active_accounts, me),
                 main_account_added |-> TRUE]
        row == [id |-> 0, account_id |-> me, account_name |-> acc_name,
                last_sync |-> now]
        dbs2 == [dbs EXCEPT
                   !.accounts = InsertOrReplace(dbs.accounts, row, AccountsKeys,
                                                dbs.accounts_seq + 1),
                   !.accounts_seq = dbs.accounts_seq + 1]
    IN IF outcome = "store" THEN [mgr |-> mgr2, db |-> dbs, ret |-> None]
       ELSE [mgr |-> mgr2, db |-> dbs2, ret |-> me]

AddOutcomes == {"ok", "get_me", "store"}

\* How the sync of one account goes: as a listing goes, or the listing
\* succeeds and the k-th INSERT raises.
SyncModes == FailModes \cup {[kind |-> "write", k |-> k] : k \in 1..Len(Dialogs)}

ListingOf(m) == IF m.kind = "write" THEN NoFail ELSE m

\* The loop of lines 129-148 over the chats of one account: one INSERT OR
\* REPLACE and chat_count += 1 per chat, up to the INSERT that raises.
\* st is [db |-> the store, count |-> chat_count].
RECURSIVE InsertChats(_, _, _, _, _, _)
InsertChats(st, chats, account, m, now, j) ==
  IF j > Len(chats) \/ (m.kind = "write" /\ m.k = j) THEN st
  ELSE LET c == chats[j]
           row == [id |-> 0, chat_id |-> c.chat_id, title |-> c.title,
                   account_id |-> c.account_id, account_name |-> account.name,
                   last_accessed |-> now]
           dbs2 == [st.db EXCEPT
                      !.chats = InsertOrReplace(st.db.chats, row, ChatsKeys,
                                                st.db.chats_seq + 1),
                      !.chats_seq = st.db.chats_seq + 1]
       IN InsertChats([db |-> dbs2, count |-> st.count + 1],
                      chats, account, m, now, j + 1)

SyncLimit == 30

\* One turn of the loop of lines 123-155, for one active account: list,
\* insert, then UPDATE last_sync unless an INSERT raised.
SyncAccount(mgr, st, acc_id, m, now) ==
  IF acc_id \notin DOMAIN mgr.accounts THEN st
  ELSE
    LET account == mgr.accounts[acc_id]
        chats == GetAllChats(mgr.accounts, mgr.active_accounts, acc_id,
                             SyncLimit, <<ListingOf(m)>>)
        st2 == InsertChats(st, chats, account, m, now, 1)
        raised == m.kind = "write" /\ m.k <= Len(chats)
    IN IF raised THEN st2
       ELSE [st2 EXCEPT !.db.accounts = UpdateLastSync(st2.db.accounts, acc_id, now)]

\* The loop stopping at the first account whose sync fails: not the
\* program's, kept to show what the property of going on rests on.
RECURSIVE SyncFromAbort(_, _, _, _, _)
SyncFromAbort(mgr, st, modes, now, i) ==
  IF i > Len(mgr.active_accounts) \/ (i > 1 /\ modes[i - 1] # NoFail) THEN st
  ELSE SyncFromAbort(mgr, SyncAccount(mgr, st, mgr.active_accounts[i], modes[i], now),
                     modes, now, i + 1)

\* The loop of lines 122-155 over active_accounts from position i on.
RECURSIVE SyncFrom(_, _, _, _, _)
SyncFrom(mgr, st, modes, now, i) ==
  IF i > Len(mgr.active_accounts) THEN st
  ELSE SyncFrom(mgr, SyncAccount(mgr, st, mgr.active_accounts[i], modes[i], now),
                modes, now, i + 1)

\* sync_chats_to_db(): the store after the call and the returned chat_count.
SyncChatsToDb(mgr, dbs, modes, now) ==
  LET st == SyncFrom(mgr, [db |-> dbs, count |-> 0], modes, now, 1)
  IN [db |-> st.db, ret |-> st.count]

\* ======================== relative time (utils.py) =======================
\* format_timedelta(dt) at the instant `now` (datetime.now(), naive), times
\* in seconds. diff = now - dt is a timedelta, which Python keeps as days
\* (possibly negative) and 0 <= seconds < 86400. The answer is the unit
\* reported and the number in front of it.
FormatTimedelta(dt, now) ==
  IF ~dt.present THEN [unit |-> "unknown", n |-> 0]
  ELSE
    LET dt_naive == IF dt.tz # "naive" THEN [dt EXCEPT !.tz = "naive"] ELSE dt
        diff == now - dt_naive.wall
        days == diff \div 86400
        seconds == diff % 86400
    IN IF days > 365 THEN [unit |-> "years", n |-> days \div 365]
       ELSE IF days > 30 THEN [unit |-> "months", n |-> days \div 30]
       ELSE IF days > 0 THEN [unit |-> "days", n |-> days]
       ELSE IF seconds > 3600 THEN [unit |-> "hours", n |-> seconds \div 3600]
       ELSE IF seconds > 60 THEN [unit |-> "minutes", n |-> seconds \div 60]
       ELSE [unit |-> "just now", n |-> 0]

\* ========================= trigger grammar (bot.py, ai_module.py) ========
\* A message text is a command word followed by a tail: nothing ("none"),
\* " 7" ("num"), " abc" ("word"), " 7 abc" ("numword"), " abc def"
\* ("wordword") or " Q|a|b" ("pipes"); n is the number typed, if any.
OpenTails == {"num", "word", "numword", "wordword", "pipes"}

\* events.NewMessage(pattern=...) of each callback: the literal word and the
\* tails its argument pattern accepts.
Pattern(cb) ==
  CASE cb = "ping_handler"         -> [words |-> {".ping"}, tails |-> {"none"}]
    [] cb = "backup_chats_handler" -> [words |-> {".backupchats"}, tails |-> {"none"}]
    [] cb = "setpfp_handler"       -> [words |-> {".setpfp"}, tails |-> {"none"}]
    [] cb = "purge_handler"        -> [words |-> {".purge"}, tails |-> {"none", "num"}]
    [] cb = "mute_handler"         -> [words |-> {".mute"}, tails |-> {"none", "num"}]
    [] cb = "remind_handler"       -> [words |-> {".remind"}, tails |-> {"numword"}]
    [] cb = "poll_handler"         -> [words |-> {".poll"}, tails |-> OpenTails]
    [] cb = "timer_handler"        -> [words |-> {".timer"}, tails |-> {"num"}]
    [] cb = "restart_handler"      -> [words |-> {".restart"}, tails |-> {"none"}]
    [] cb = "shutdown_handler"     -> [words |-> {".shutdown"}, tails |-> {"none"}]
    [] cb = "eval_handler"         -> [words |-> {".eval"}, tails |-> OpenTails]
    [] cb = "exec_handler"         -> [words |-> {".exec"}, tails |-> OpenTails]
    [] cb = "setvar_handler"       -> [words |-> {".setvar"}, tails |-> {"numword", "wordword"}]
    [] cb = "broadcast_handler"    -> [words |-> {".broadcast"}, tails |-> OpenTails]
    [] cb = "ai_chat_handler"      -> [words |-> {".ai"}, tails |-> OpenTails]
    [] cb = "web_search_handler"   -> [words |-> {".google", ".search"}, tails |-> OpenTails]

\* A filter that looks at the command word only (no argument pattern, no $):
\* not the program's, kept to show what the properties of unmatched text
\* rest on.
MatchesWord(cb, text) == text.word \in Pattern(cb).words
\* The NewMessage filter: re.match of the pattern on the text.
Matches(cb, text) ==
  text.word \in Pattern(cb).words /\ text.tail \in Pattern(cb).tails

\* The callbacks bot.py registers, in source order, and the two that every
\* call of setup_ai_commands registers.
BotBuilders == << "ping_handler", "backup_chats_handler", "setpfp_handler",
                  "purge_handler", "mute_handler", "remind_handler",
                  "poll_handler", "timer_handler", "restart_handler",
                  "shutdown_handler", "eval_handler", "exec_handler",
                  "setvar_handler", "broadcast_handler" >>
AiBuilders == << "ai_chat_handler", "web_search_handler" >>
AiCallbacks == {"ai_chat_handler", "web_search_handler"}

\* ------------------------------------------------------ inbound events
\* Numbers typed as an argument: 0 (which the handlers treat apart) and the
\* largest one.
Nums == {0, MaxNum}
T(w, t) == [word |-> w, tail |-> t, n |-> 0]
TN(w, t) == {[word |-> w, tail |-> t, n |-> n] : n \in Nums}

TriggerTexts ==
  {T(".ping", "none"), T(".backupchats", "none"), T(".setpfp", "none"),
   T(".purge", "none"), T(".mute", "none"), T(".poll", "word"),
   T(".poll", "pipes"), T(".restart", "none"), T(".shutdown", "none"),
   T(".eval", "word"), T(".exec", "word"), T(".setvar", "wordword"),
   T(".broadcast", "word"), T(".ai", "word"), T(".google", "word"),
   T(".search", "word"), T(".remind", "numword")}
  \cup TN(".purge", "num") \cup TN(".mute", "num") \cup TN(".timer", "num")

\* Texts that are no command: an unknown word, a wrong case, a required
\* argument missing or of the wrong kind, text after an argument-less word.
OtherTexts ==
  {T(".foo", "none"), T(".PING", "none"), T(".ping", "word"),
   T(".shutdown", "word"), T(".timer", "none"), T(".timer", "word"),
   T(".ai", "none"), T(".setvar", "word")}

Texts == TriggerTexts \cup OtherTexts

\* What the message replies to: nothing, a photo, a text message, or a
\* message that no longer exists (get_reply_message() answers None). Only
\* these three handlers read is_reply or the replied-to message. purge
\* ignores its number when the message is a reply, and mute has no use for
\* it when the message is none, so a number is typed only where it is read.
ReplyKinds(text) ==
  IF text.word = ".setpfp" THEN {"none", "photo", "text", "gone"}
  ELSE IF text.word = ".purge"
    THEN IF text.tail = "num" THEN {"none"} ELSE {"none", "text", "gone"}
  ELSE IF text.word = ".mute"
    THEN IF text.tail = "num" THEN {"text"} ELSE {"none", "text", "gone"}
  ELSE {"none"}

\* event.sender_id: the logged-in identity, another one, or None (a message
\* that carries no sender).
Senders == {Me, Stranger, None}

\* ======================== handlers as sequences of awaited steps =========
\* A step is one awaited call (or one effect on the process) of a handler;
\* g tells what happens when it raises: "U" nothing catches it inside the
\* callback, "T" the handler's try/except replies with the error text, "S"
\* the inner try/except of the broadcast loop counts it and goes on.
St(op, g) == [op |-> op, g |-> g]

\* Steps that raise whenever they run: the use of a replied-to message that
\* get_reply_message() answered None for (reply.photo, reply.id, ...).
AlwaysRaises == {"raise"}
\* Steps that do not call the transport, an API or the interpreter.
LocalOps == {"sleep", "setvar", "exit", "execl", "get_all_chats"}
MayRaise(op) == op \notin LocalOps /\ op \notin AlwaysRaises

\* timer_handler's loop (lines 902-905)
RECURSIVE TimerLoop(_)
TimerLoop(i) ==
  IF i = 0 THEN <<>>
  ELSE (IF i % 5 = 0 \/ i <= 5 THEN <<St("edit", "U")>> ELSE <<>>)
       \o <<St("sleep", "U")>> \o TimerLoop(i - 1)

\* The body of each bot.py handler for an event.
Body(cb, ev) ==
  CASE cb = "ping_handler" -> <<St("reply", "U"), St("edit", "U")>>
    [] cb = "backup_chats_handler" ->
         <<St("reply", "T"), St("sync_chats_to_db", "T"), St("edit", "T")>>
    [] cb = "setpfp_handler" ->
         IF ev.reply_to = "none" THEN <<St("reply", "U")>>
         ELSE IF ev.reply_to = "gone"
           THEN <<St("get_reply_message", "U"), St("raise", "U")>>
         ELSE IF ev.reply_to = "photo"
           THEN <<St("get_reply_message", "U"), St("download_media", "U"),
                  St("upload_file", "U"), St("UploadProfilePhotoRequest", "U"),
                  St("reply", "U")>>
         ELSE <<St("get_reply_message", "U"), St("reply", "U")>>
    [] cb = "purge_handler" ->
         IF ev.reply_to = "gone"
           THEN <<St("get_reply_message", "T"), St("raise", "T")>>
         ELSE IF ev.reply_to # "none"
           THEN <<St("get_reply_message", "T"), St("iter_messages", "T"),
                  St("DeleteMessagesRequest", "T"), St("reply", "T")>>
         ELSE IF ev.text.tail = "num" /\ ev.text.n = 0
           THEN <<St("iter_messages", "T"), St("reply", "T")>>
         ELSE <<St("iter_messages", "T"), St("DeleteMessagesRequest", "T"),
                St("reply", "T")>>
    [] cb = "mute_handler" ->
         IF ev.reply_to = "none" THEN <<St("reply", "U")>>
         ELSE IF ev.reply_to = "gone"
           THEN <<St("get_reply_message", "T"), St("raise", "T")>>
         ELSE <<St("get_reply_message", "T"), St("EditBannedRequest", "T"),
                St("reply", "T")>>
    [] cb = "remind_handler" ->
         <<St("reply", "U"), St("sleep", "U"), St("respond", "U")>>
    [] cb = "poll_handler" ->
         IF ev.text.tail = "pipes" THEN <<St("send_message", "U")>>
         ELSE <<St("reply", "U")>>
    [] cb = "timer_handler" ->
         <<St("reply", "U")>> \o TimerLoop(ev.text.n) \o <<St("edit", "U")>>
    [] cb = "restart_handler" -> <<St("reply", "U"), St("execl", "U")>>
    [] cb = "shutdown_handler" ->
         <<St("reply", "U"), St("disconnect", "U"), St("exit", "U")>>
    [] cb = "eval_handler" -> <<St("eval", "T"), St("reply", "T")>>
    [] cb = "exec_handler" -> <<St("shell", "T"), St("reply", "T")>>
    [] cb = "setvar_handler" -> <<St("setvar", "U"), St("reply", "U")>>
    [] cb = "broadcast_handler" ->
         <<St("reply", "U"), St("get_all_chats", "U")>>

\* The rest of broadcast_handler once all_chats is known (lines 1190-1197).
BroadcastLimit == 100
RECURSIVE BroadcastLoop(_)
BroadcastLoop(n) ==
  IF n = 0 THEN <<St("edit", "U")>>
  ELSE <<St("send_message", "S"), St("sleep", "S")>> \o BroadcastLoop(n - 1)

\* The wrong order (body, then indicator): not the program's, kept to show
\* what the ordering property rests on.
WithTypingAfter(inner) == inner \o <<St("typing", "U")>>
\* with_typing(delay) / auto_typing: the typing indicator, then the body.
WithTyping(inner) == <<St("typing", "U")>> \o inner

\* A gate that lets every sender through: not the program's, kept to show
\* what the authorization property rests on.
OwnerOnlyOpen(sender, owner, inner) == [ok |-> TRUE, steps |-> inner]
\* owner_only: the fixed reply and nothing else for any other sender.
OwnerOnly(sender, owner, inner) ==
  IF sender # owner
  THEN [ok |-> FALSE, steps |-> <<St("unauth_reply", "U")>>]
  ELSE [ok |-> TRUE, steps |-> inner]

\* ai_chat_handler and web_search_handler: a silent return for any other
\* sender, else ai_typing and the body.
AiHandler(cb, sender, owner) ==
  IF sender # owner THEN [ok |-> FALSE, steps |-> <<>>]
  ELSE IF cb = "ai_chat_handler"
    THEN [ok |-> TRUE, steps |-> <<St("typing", "U"), St("reply", "U")>>]
    ELSE [ok |-> TRUE, steps |-> <<St("typing", "U"), St("http", "T"),
                                   St("reply", "T")>>]

\* What calling a registered callback on an event starts: the check against
\* the module's owner_id as it is now, and the steps that follow.
Callback(cb, ev, own, ai_own) ==
  IF cb \in AiCallbacks THEN AiHandler(cb, ev.sender, ai_own)
  ELSE OwnerOnly(ev.sender, own, WithTyping(Body(cb, ev)))

OwnerSeen(cb, own, ai_own) == IF cb \in AiCallbacks THEN ai_own ELSE own

\* ----------------------------------------------------- dispatch of one event
Entry(i, op, arg) == [i |-> i, op |-> op, arg |-> arg]

\* The dispatch loop over the registered builders from position j on: the
\* next builder whose pattern matches is called; a callback that returns
\* at once is followed by the next one; past the last builder the event is
\* done.
RECURSIVE Scan(_, _, _, _, _)
Scan(t, builders, own, ai_own, j) ==
  IF j > Len(builders) THEN [t EXCEPT !.steps = <<>>, !.done = TRUE]
  ELSE IF ~Matches(builders[j], t.text) THEN Scan(t, builders, own, ai_own, j + 1)
  ELSE
    LET c == Callback(builders[j], t, own, ai_own)
        mark == Entry(j, IF c.ok THEN "auth_ok" ELSE "auth_denied",
                      OwnerSeen(builders[j], own, ai_own))
        t2 == [t EXCEPT !.idx = j, !.steps = c.steps, !.log = Append(@, mark)]
    IN IF c.steps = <<>> THEN Scan(t2, builders, own, ai_own, j + 1) ELSE t2

NewTask(sender, text, reply_to) ==
  [sender |-> sender, text |-> text, reply_to |-> reply_to, idx |-> 0,
   steps |-> <<>>, log |-> <<>>, raised |-> 0, escaped |-> 0, done |-> FALSE]

\* The launcher before `python main.py` is run: status is the exit status of
\* the process (-1 while it runs), client whether TelegramClient(...) was
\* constructed, started whether client.start() was called.
NoEnv == [api_id |-> Absent, api_hash |-> Absent, dotenv |-> TRUE,
          python_ok |-> TRUE, packages |-> "present", files_ok |-> TRUE]
NotLaunched == [pc |-> "shell", env |-> NoEnv, status |-> -1,
                client |-> FALSE, started |-> FALSE]

\* =============================== state ===================================
VARIABLES
  owner_id,        \* bot.owner_id
  ai_owner_id,     \* ai_module.owner_id
  event_builders,  \* the callbacks registered with client.on, in order
  main_pc,         \* where bot.main() is
  proc,            \* "running", "exited" (sys.exit) or "restarted" (os.execl)
  tasks,           \* one dispatch per delivered event, in order of arrival
  failures,        \* calls that raised so far (bounded by MaxFailures)
  client_vars,     \* client._vars
  manager,         \* account_manager: accounts, active_accounts, main_account_added
  db,              \* kira_chats.db: chats, accounts and their AUTOINCREMENT counters
  clock,           \* datetime.now() as a logical time
  agg_calls,       \* manager calls made so far in SpecAgg
  ret,             \* what the last call observed was given and returned
  files,           \* the working directory: file name -> content
  syncs,           \* the sync_chats_to_db calls started in SpecSync, in order
  exports,         \* the export_chats_handler calls started in SpecExport, in order
  launcher         \* main.py: where the launcher is, its environment, what it did

vars == <<owner_id, ai_owner_id, event_builders, main_pc, proc, tasks, failures,
          client_vars, manager, db, clock, agg_calls, ret, files, syncs, exports,
          launcher>>

router_vars == <<owner_id, ai_owner_id, event_builders, main_pc, proc, tasks,
                 failures, client_vars>>

\* The state once bot.py is imported: utils.init_database() has created the
\* empty tables, every @client.on has registered its callback, and line 1319
\* has called setup_ai_commands(client, None).
Init ==
  /\ owner_id = None
  /\ ai_owner_id = None
  /\ event_builders = BotBuilders \o AiBuilders
  /\ main_pc = "start"
  /\ proc = "running"
  /\ tasks = <<>>
  /\ failures = 0
  /\ client_vars = <<>>
  /\ manager = [accounts |-> <<>>, active_accounts |-> <<>>,
                main_account_added |-> FALSE]
  /\ db = [chats |-> <<>>, accounts |-> <<>>, chats_seq |-> 0, accounts_seq |-> 0]
  /\ clock = 1
  /\ agg_calls = 0
  /\ ret = [op |-> "none"]
  /\ files = <<>>
  /\ syncs = <<>>
  /\ exports = <<>>
  /\ launcher = NotLaunched

\* ------------------------------------------------------------ bot.main()
\* await client.start(): from here on the transport delivers events.
MainStart ==
  /\ proc = "running" /\ main_pc = "start"
  /\ main_pc' = "get_me"
  /\ UNCHANGED <<files, syncs, exports, launcher, owner_id, ai_owner_id, event_builders, proc, tasks, failures,
                 client_vars, manager, db, clock, agg_calls, ret>>

\* me = await client.get_me(); owner_id = me.id; setup_ai_commands(client,
\* owner_id), which registers its two callbacks once more.
MainLogin ==
  /\ proc = "running" /\ main_pc = "get_me"
  /\ owner_id' = Me
  /\ ai_owner_id' = Me
  /\ event_builders' = event_builders \o AiBuilders
  /\ main_pc' = "add_account"
  /\ UNCHANGED <<files, syncs, exports, launcher, proc, tasks, failures, client_vars, manager, db, clock,
                 agg_calls, ret>>

\* await account_manager.add_account(SESSION_NAME, API_ID, API_HASH,
\* f"{me.first_name} (Main)"), in a run whose start-up calls succeed (as
\* client.start() and get_me() above did). What follows (the start-up note
\* to Saved Messages, whose errors are passed over, and
\* client.run_until_disconnected()) changes nothing a handler reads.
MainAddAccount ==
  /\ proc = "running" /\ main_pc = "add_account"
  /\ LET r == AddAccount(manager, db, Me, "Tom (Main)", "ok", clock)
     IN /\ manager' = r.mgr
        /\ db' = r.db
  /\ clock' = clock + 1
  /\ main_pc' = "running"
  /\ UNCHANGED <<files, syncs, exports, launcher, owner_id, ai_owner_id, event_builders, proc, tasks, failures,
                 client_vars, agg_calls, ret>>

\* ------------------------------------------------- one event, step by step
\* The transport delivers a message: its dispatch starts and runs up to
\* the first await of the first callback that matches.
Receive ==
  /\ proc = "running" /\ main_pc # "start"
  /\ Len(tasks) < MaxEvents
  /\ \E sender \in Senders, text \in Texts :
       \E reply_to \in ReplyKinds(text) :
         tasks' = Append(tasks, Scan(NewTask(sender, text, reply_to),
                                     event_builders, owner_id, ai_owner_id, 1))
  /\ UNCHANGED <<files, syncs, exports, launcher, owner_id, ai_owner_id, event_builders, main_pc, proc, failures,
                 client_vars, manager, db, clock, agg_calls, ret>>

\* The callback of task t goes on with `rest`; when nothing is left the
\* dispatch loop moves to the next registered builder.
Continue(t, rest) ==
  IF rest = <<>>
  THEN Scan([t EXCEPT !.steps = <<>>], event_builders, owner_id, ai_owner_id,
            t.idx + 1)
  ELSE [t EXCEPT !.steps = rest]

Logged(t, op) == [t EXCEPT !.log = Append(@, Entry(t.idx, op, ""))]

\* A router that runs one handler at a time, in order of arrival: not the
\* program's, kept to show what the property of interleaving rests on.
RunnableInTurn(e) ==
  /\ proc = "running"
  /\ e \in 1..Len(tasks)
  /\ ~tasks[e].done
  /\ tasks[e].steps # <<>>
  /\ \A o \in 1..(e - 1) : tasks[o].done
\* Each dispatch is a task of its own: it can go on whenever the call it
\* awaits has returned, whatever the other tasks are doing.
Runnable(e) ==
  /\ proc = "running"
  /\ e \in 1..Len(tasks)
  /\ ~tasks[e].done
  /\ tasks[e].steps # <<>>

\* An awaited call returns, or a local effect takes place.
StepOk(e) ==
  /\ Runnable(e)
  /\ LET t == tasks[e]
         st == Head(t.steps)
     IN /\ st.op \notin AlwaysRaises
        /\ st.op \notin {"sync_chats_to_db", "get_all_chats"}
        /\ proc' = CASE st.op = "exit" -> "exited"
                     [] st.op = "execl" -> "restarted"
                     [] OTHER -> proc
        /\ client_vars' = IF st.op = "setvar"
                          THEN ("k" :> "v") @@ client_vars ELSE client_vars
        /\ tasks' = [tasks EXCEPT ![e] =
                       IF st.op \in {"exit", "execl"}
                       THEN [Logged(t, st.op) EXCEPT !.steps = Tail(t.steps)]
                       ELSE Continue(Logged(t, st.op), Tail(t.steps))]
  /\ UNCHANGED <<files, syncs, exports, launcher, owner_id, ai_owner_id, event_builders, main_pc, failures,
                 manager, db, clock, agg_calls, ret>>

\* A call raises: the handler's except clause replies with the error text,
\* the broadcast loop counts it, or the error leaves the callback and the
\* dispatch loop goes on with the next builder.
StepRaise(e) ==
  /\ Runnable(e)
  /\ LET t == tasks[e]
         st == Head(t.steps)
         t2 == [t EXCEPT !.raised = @ + 1]
     IN /\ \/ st.op \in AlwaysRaises /\ failures' = failures
           \/ MayRaise(st.op) /\ failures < MaxFailures /\ failures' = failures + 1
        /\ tasks' = [tasks EXCEPT ![e] =
             CASE st.g = "T" -> [t2 EXCEPT !.steps = <<St("error_reply", "U")>>]
               [] st.g = "S" -> Continue(t2, Tail(Tail(t.steps)))
               [] OTHER -> Continue([t2 EXCEPT !.escaped = @ + 1], <<>>)]
  /\ UNCHANGED <<files, syncs, exports, launcher, owner_id, ai_owner_id, event_builders, main_pc, proc,
                 client_vars, manager, db, clock, agg_calls, ret>>

AllOk(modes) == \A i \in DOMAIN modes : modes[i] = NoFail

\* backup_chats_handler: count = await account_manager.sync_chats_to_db()
StepSync(e) ==
  /\ Runnable(e)
  /\ Head(tasks[e].steps).op = "sync_chats_to_db"
  /\ \E modes \in [1..Len(manager.active_accounts) -> SyncModes] :
       /\ ~AllOk(modes) => failures < MaxFailures
       /\ failures' = IF AllOk(modes) THEN failures ELSE failures + 1
       /\ db' = SyncChatsToDb(manager, db, modes, clock).db
  /\ clock' = clock + 1
  /\ tasks' = [tasks EXCEPT ![e] =
                 Continue(Logged(tasks[e], "sync_chats_to_db"), Tail(tasks[e].steps))]
  /\ UNCHANGED <<files, syncs, exports, launcher, owner_id, ai_owner_id, event_builders, main_pc, proc,
                 client_vars, manager, agg_calls, ret>>

\* broadcast_handler: all_chats = await account_manager.get_all_chats(limit=100),
\* then one send and one pause per chat.
StepList(e) ==
  /\ Runnable(e)
  /\ Head(tasks[e].steps).op = "get_all_chats"
  /\ \E fail \in [1..Len(manager.active_accounts) -> FailModes] :
       /\ ~AllOk(fail) => failures < MaxFailures
       /\ failures' = IF AllOk(fail) THEN failures ELSE failures + 1
       /\ LET chats == GetAllChats(manager.accounts, manager.active_accounts,
                                   None, BroadcastLimit, fail)
          IN tasks' = [tasks EXCEPT ![e] =
                         Continue(Logged(tasks[e], "get_all_chats"),
                                  BroadcastLoop(Len(chats)))]
  /\ UNCHANGED <<files, syncs, exports, launcher, owner_id, ai_owner_id, event_builders, main_pc, proc,
                 client_vars, manager, db, clock, agg_calls, ret>>

Next ==
  \/ MainStart
  \/ MainLogin
  \/ MainAddAccount
  \/ Receive
  \/ \E e \in 1..MaxEvents : StepOk(e)
  \/ \E e \in 1..MaxEvents : StepRaise(e)
  \/ \E e \in 1..MaxEvents : StepSync(e)
  \/ \E e \in 1..MaxEvents : StepList(e)

Spec == Init /\ [][Next]_vars

\* ------------------------------- MultiAccountManager through its methods
Limits == {1, 50, 200}

\* The identity get_me() answers is the transport's; the label is the
\* caller's (None: no label given).
AggAddAccount ==
  /\ agg_calls < MaxCalls
  /\ \E me \in Ids, name \in {None, "Work"}, outcome \in AddOutcomes :
       LET r == AddAccount(manager, db, me, name, outcome, clock)
       IN /\ manager' = r.mgr
          /\ db' = r.db
          /\ ret' = [op |-> "add_account", me |-> me, outcome |-> outcome,
                     val |-> r.ret, before |-> manager]
  /\ clock' = clock + 1
  /\ agg_calls' = agg_calls + 1
  /\ UNCHANGED <<files, syncs, exports, launcher, router_vars>>

AggGetAllChats ==
  /\ agg_calls < MaxCalls
  /\ \E account_id \in Ids \cup {None}, limit \in Limits :
       LET to_check == IF account_id # None THEN <<account_id>>
                       ELSE manager.active_accounts
       IN \E fail \in [1..Len(to_check) -> FailModes] :
            ret' = [op |-> "get_all_chats", account_id |-> account_id,
                    limit |-> limit, fail |-> fail, to_check |-> to_check,
                    page |-> PageSize(limit),
                    requests |-> Requests(manager.accounts, to_check),
                    val |-> GetAllChats(manager.accounts, manager.active_accounts,
                                        account_id, limit, fail)]
  /\ agg_calls' = agg_calls + 1
  /\ UNCHANGED <<files, syncs, exports, launcher, router_vars, manager, db, clock>>

AggSync ==
  /\ agg_calls < MaxCalls
  /\ \E modes \in [1..Len(manager.active_accounts) -> SyncModes] :
       LET r == SyncChatsToDb(manager, db, modes, clock)
       IN /\ db' = r.db
          /\ ret' = [op |-> "sync_chats_to_db", modes |-> modes, val |-> r.ret,
                     before |-> db]
  /\ clock' = clock + 1
  /\ agg_calls' = agg_calls + 1
  /\ UNCHANGED <<files, syncs, exports, launcher, router_vars, manager>>

NextAgg ==
  \/ AggAddAccount
  \/ AggGetAllChats
  \/ AggSync

SpecAgg == Init /\ [][NextAgg]_vars

\* ---------------------- sync_chats_to_db calls that run at the same time
\* A call is suspended only in `await self.get_all_chats(acc_id, limit=30)`;
\* what lies between two such awaits runs in one piece. i is the position in
\* active_accounts whose listing the call awaits, count its chat_count,
\* wrote whether its connection has an open write transaction, stamps the
\* datetime.now() values of its statements, val what it returned.

\* A call whose counter starts at the size of the table: not the program's,
\* kept to show what the property of the returned count rests on.
NewSyncCumulative(dbs) ==
  [i |-> 1, count |-> Len(dbs.chats), wrote |-> FALSE, stamps |-> {},
   done |-> FALSE, val |-> 0]
\* Lines 119-122: a connection of its own and chat_count = 0.
NewSync(dbs) ==
  [i |-> 1, count |-> 0, wrote |-> FALSE, stamps |-> {}, done |-> FALSE,
   val |-> 0]

\* Lines 157-159 once the loop is over: commit, close, return chat_count.
Finish(call, active) ==
  IF call.i > Len(active)
  THEN [call EXCEPT !.done = TRUE, !.val = call.count, !.wrote = FALSE]
  ELSE call

\* Another call's connection holds the write lock of the database file: a
\* write statement of this call then raises ("database is locked").
Locked(c) ==
  \E o \in DOMAIN syncs : o # c /\ ~syncs[o].done /\ syncs[o].wrote

\* add_account for an identity that is not registered yet, succeeding,
\* before any sync is started.
SyncRegister ==
  /\ syncs = <<>>
  /\ \E me \in Ids :
       /\ me \notin DOMAIN manager.accounts
       /\ LET r == AddAccount(manager, db, me, None, "ok", clock)
          IN /\ manager' = r.mgr
             /\ db' = r.db
  /\ clock' = clock + 1
  /\ UNCHANGED <<router_vars, agg_calls, ret, files, syncs, exports, launcher>>

\* sync_chats_to_db() is called and runs up to its first await.
SyncCall ==
  /\ Len(syncs) < MaxSyncs
  /\ syncs' = Append(syncs, Finish(NewSync(db), manager.active_accounts))
  /\ UNCHANGED <<router_vars, manager, db, clock, agg_calls, ret, files,
                 exports, launcher>>

\* The listing call c awaits returns (as m says); the call writes the rows,
\* sets last_sync and goes on to its next await or to its end. db holds the
\* rows of open transactions too.
SyncResume(c) ==
  /\ c \in DOMAIN syncs
  /\ ~syncs[c].done
  /\ \E m \in SyncModes :
       LET call == syncs[c]
           st == [db |-> db, count |-> call.count]
           st2 == IF Locked(c) THEN st
                  ELSE SyncAccount(manager, st, manager.active_accounts[call.i],
                                   m, clock)
           call2 == [call EXCEPT !.i = @ + 1, !.count = st2.count,
                                 !.wrote = @ \/ st2.db # db,
                                 !.stamps = @ \cup {clock}]
       IN /\ m # NoFail => failures < MaxFailures
          /\ failures' = IF m = NoFail THEN failures ELSE failures + 1
          /\ db' = st2.db
          /\ syncs' = [syncs EXCEPT ![c] = Finish(call2, manager.active_accounts)]
  /\ clock' = clock + 1
  /\ UNCHANGED <<owner_id, ai_owner_id, event_builders, main_pc, proc, tasks,
                 client_vars, manager, agg_calls, ret, files, exports,
                 launcher>>

NextSync ==
  \/ SyncRegister
  \/ SyncCall
  \/ \E c \in 1..MaxSyncs : SyncResume(c)

SpecSync == Init /\ [][NextSync]_vars

\* ------------------------------ export_chats_handler, one step at a time
\* A file of the working directory is named chats_<timestamp>.<ext>; the
\* timestamp has the resolution of one second of the clock.
NoFile == [stamp |-> 0, ext |-> ""]
FileName(now, fmt) == [stamp |-> now, ext |-> fmt]

\* The (csv|json) group of the trigger pattern.
Fmts == {"csv", "json"}

\* str(date) in a CSV cell (str(None) is "None"), and what json.dump makes
\* of the date (null for None, default=str for a datetime).
StrDate(d) == IF d.present THEN <<"datetime", d.wall>> ELSE "None"
JsonDate(d) == IF d.present THEN <<"datetime", d.wall>> ELSE "null"

\* The lines csv.writer writes: the header, then one row per chat in the
\* order of all_chats. A row holds the columns of the record that the
\* aggregation is modelled with.
CsvHeader == <<"Account", "Chat ID", "Title", "Type", "Last Active">>
CsvRow(chat) ==
  <<chat.account_name, chat.chat_id, chat.title, chat.type,
    StrDate(chat.last_message_date)>>
CsvRows(all_chats) == [i \in 1..Len(all_chats) |-> CsvRow(all_chats[i])]

\* A writer that leaves the header out: not the program's, kept to show
\* what the count of data rows rests on.
WriteCsvBare(all_chats) == CsvRows(all_chats)
\* Lines 282-294.
WriteCsv(all_chats) == <<CsvHeader>> \o CsvRows(all_chats)

\* Lines 299-300: json.dump(all_chats, f, default=str, indent=2), an array
\* with one object per chat.
WriteJson(all_chats) ==
  [i \in 1..Len(all_chats) |->
     [all_chats[i] EXCEPT !.last_message_date = JsonDate(@)]]

WriteFile(fmt, all_chats) ==
  IF fmt = "csv" THEN WriteCsv(all_chats) ELSE WriteJson(all_chats)

\* Reading a file back: the data rows after the header of a CSV file, the
\* elements of a JSON array.
Records(fmt, content) ==
  IF fmt = "csv" THEN Len(content) - 1 ELSE Len(content)

\* Lines 272-273: the progress reply and the listing, inside the try.
ExportBody == <<St("reply", "T"), St("get_all_chats", "T")>>

\* Lines 274-303 once all_chats is known.
ExportRest(all_chats) ==
  IF all_chats = <<>> THEN <<St("edit_none", "T")>>
  ELSE <<St("write_file", "T"), St("send_file", "T"), St("remove", "T"),
         St("edit", "T")>>

\* One call of the decorated handler: owner_only, with_typing(2.0), body.
\* all_chats, filename are its locals; wrote is what it wrote to its file,
\* sent what send_file uploaded, reported the count of its confirmation.
NewExport(sender, fmt, owner) ==
  [sender |-> sender, fmt |-> fmt,
   steps |-> OwnerOnly(sender, owner, WithTyping(ExportBody)).steps,
   all_chats |-> <<>>, filename |-> NoFile, wrote |-> <<>>, sent |-> <<>>,
   reported |-> -1, raised |-> 0, done |-> FALSE]

\* The call goes on with `rest`; with nothing left it has finished.
ExportGo(x, rest) == [x EXCEPT !.steps = rest, !.done = (rest = <<>>)]

ExportAt(e, ops) ==
  /\ proc = "running"
  /\ e \in DOMAIN exports
  /\ ~exports[e].done
  /\ Head(exports[e].steps).op \in ops

export_frame == <<owner_id, ai_owner_id, event_builders, main_pc, proc, tasks,
                  client_vars, manager, db, agg_calls, ret, syncs, launcher>>

\* The transport delivers '.exportchats csv' or '.exportchats json'; the
\* callback runs up to its first await.
ExportReceive ==
  /\ proc = "running" /\ main_pc # "start"
  /\ Len(exports) < MaxExports
  /\ \E sender \in Senders, fmt \in Fmts :
       exports' = Append(exports, NewExport(sender, fmt, owner_id))
  /\ UNCHANGED <<export_frame, failures, files, clock>>

\* A reply, an edit or the typing indicator returns.
ExportCall(e) ==
  /\ ExportAt(e, {"typing", "reply", "edit_none", "unauth_reply", "error_reply"})
  /\ exports' = [exports EXCEPT ![e] = ExportGo(@, Tail(@.steps))]
  /\ UNCHANGED <<export_frame, failures, files, clock>>

\* Line 273: all_chats = await account_manager.get_all_chats(limit=100)
ExportList(e) ==
  /\ ExportAt(e, {"get_all_chats"})
  /\ \E fail \in [1..Len(manager.active_accounts) -> FailModes] :
       /\ ~AllOk(fail) => failures < MaxFailures
       /\ failures' = IF AllOk(fail) THEN failures ELSE failures + 1
       /\ LET chats == GetAllChats(manager.accounts, manager.active_accounts,
                                   None, BroadcastLimit, fail)
          IN exports' = [exports EXCEPT ![e] =
                           ExportGo([@ EXCEPT !.all_chats = chats],
                                    ExportRest(chats))]
  /\ UNCHANGED <<export_frame, files, clock>>

\* Lines 278-294 and 298-300: the name from the clock, the file written (a
\* file of that name is overwritten). The clock may reach its next second
\* before anything else runs.
ExportWrite(e) ==
  /\ ExportAt(e, {"write_file"})
  /\ LET x == exports[e]
         name == FileName(clock, x.fmt)
         content == WriteFile(x.fmt, x.all_chats)
     IN /\ files' = (name :> content) @@ files
        /\ exports' = [exports EXCEPT ![e] =
                         ExportGo([x EXCEPT !.filename = name, !.wrote = content],
                                  Tail(x.steps))]
  /\ \E tick \in {0, 1} : clock' = clock + tick
  /\ UNCHANGED <<export_frame, failures>>

\* Lines 295 and 301: await client.send_file(event.chat_id, filename)
\* uploads what the file holds.
ExportSend(e) ==
  /\ ExportAt(e, {"send_file"})
  /\ exports[e].filename \in DOMAIN files
  /\ LET x == exports[e]
     IN exports' = [exports EXCEPT ![e] =
                      ExportGo([x EXCEPT !.sent = files[x.filename]],
                               Tail(x.steps))]
  /\ UNCHANGED <<export_frame, failures, files, clock>>

\* Lines 296 and 302: os.remove(filename)
ExportRemove(e) ==
  /\ ExportAt(e, {"remove"})
  /\ exports[e].filename \in DOMAIN files
  /\ files' = [f \in DOMAIN files \ {exports[e].filename} |-> files[f]]
  /\ exports' = [exports EXCEPT ![e] = ExportGo(@, Tail(@.steps))]
  /\ UNCHANGED <<export_frame, failures, clock>>

\* Line 303: the confirmation with len(all_chats).
ExportReport(e) ==
  /\ ExportAt(e, {"edit"})
  /\ LET x == exports[e]
     IN exports' = [exports EXCEPT ![e] =
                      ExportGo([x EXCEPT !.reported = Len(x.all_chats)],
                               Tail(x.steps))]
  /\ UNCHANGED <<export_frame, failures, files, clock>>

\* A call raises: a transport call for a reason of its own, send_file and
\* os.remove also because the file is not there. Inside the try the except
\* clause of line 304 replies with the error text; elsewhere the error
\* leaves the callback.
ExportRaise(e) ==
  /\ ExportAt(e, {"typing", "reply", "edit_none", "unauth_reply", "error_reply",
                  "edit", "send_file", "remove"})
  /\ LET x == exports[e]
         st == Head(x.steps)
         missing == st.op \in {"send_file", "remove"}
                    /\ x.filename \notin DOMAIN files
         x2 == [x EXCEPT !.raised = @ + 1]
     IN /\ \/ missing /\ failures' = failures
           \/ ~missing /\ st.op # "remove" /\ failures < MaxFailures
              /\ failures' = failures + 1
        /\ exports' = [exports EXCEPT ![e] =
                         IF st.g = "T"
                         THEN ExportGo(x2, <<St("error_reply", "U")>>)
                         ELSE ExportGo(x2, <<>>)]
  /\ UNCHANGED <<export_frame, files, clock>>

NextExport ==
  \/ MainStart
  \/ MainLogin
  \/ MainAddAccount
  \/ ExportReceive
  \/ \E e \in 1..MaxExports : ExportCall(e)
  \/ \E e \in 1..MaxExports : ExportList(e)
  \/ \E e \in 1..MaxExports : ExportWrite(e)
  \/ \E e \in 1..MaxExports : ExportSend(e)
  \/ \E e \in 1..MaxExports : ExportRemove(e)
  \/ \E e \in 1..MaxExports : ExportReport(e)
  \/ \E e \in 1..MaxExports : ExportRaise(e)

SpecExport == Init /\ [][NextExport]_vars




\* The owner sends the command of an export once more, in the same format,
\* while the handler of the first is suspended.
ExportReceiveSame ==
  /\ proc = "running" /\ main_pc # "start"
  /\ exports # <<>>
  /\ Len(exports) < MaxExports + 1
  /\ ~exports[1].done
  /\ exports' = Append(exports, NewExport(Me, exports[1].fmt, owner_id))
  /\ UNCHANGED <<export_frame, failures, files, clock>>

NextExportPair ==
  \/ MainStart
  \/ MainLogin
  \/ MainAddAccount
  \/ ExportReceive
  \/ ExportReceiveSame
  \/ \E e \in 1..(MaxExports + 1) : ExportCall(e)
  \/ \E e \in 1..(MaxExports + 1) : ExportList(e)
  \/ \E e \in 1..(MaxExports + 1) : ExportWrite(e)
  \/ \E e \in 1..(MaxExports + 1) : ExportSend(e)
  \/ \E e \in 1..(MaxExports + 1) : ExportRemove(e)
  \/ \E e \in 1..(MaxExports + 1) : ExportReport(e)
  \/ \E e \in 1..(MaxExports + 1) : ExportRaise(e)

SpecExportPair == Init /\ [][NextExportPair]_vars

\* ------------------- long-running handlers and the commands that follow
\* The commands whose handlers wait (the countdown of .timer, the wait of
\* .remind, the pacing of .broadcast) and three that do not.
LongTexts ==
  TN(".timer", "num") \cup {T(".remind", "numword"), T(".broadcast", "word")}
QuickTexts == {T(".ping", "none"), T(".restart", "none"), T(".shutdown", "none")}

\* The transport delivers a command of the owner: Telethon starts a task of
\* its own for the dispatch, which runs up to the first await of the first
\* callback that matches.
ReceiveCommand ==
  /\ proc = "running" /\ main_pc # "start"
  /\ Len(tasks) < MaxCommands
  /\ \E text \in LongTexts \cup QuickTexts :
       tasks' = Append(tasks, Scan(NewTask(Me, text, "none"),
                                   event_builders, owner_id, ai_owner_id, 1))
  /\ UNCHANGED <<files, syncs, exports, launcher, owner_id, ai_owner_id,
                 event_builders, main_pc, proc, failures, client_vars, manager,
                 db, clock, agg_calls, ret>>

\* A run in which the transport calls succeed.
NextLong ==
  \/ MainStart
  \/ MainLogin
  \/ MainAddAccount
  \/ ReceiveCommand
  \/ \E e \in 1..MaxCommands : StepOk(e)
  \/ \E e \in 1..MaxCommands : StepList(e)

SpecLong == Init /\ [][NextLong]_vars

\* ------------------------------------- main.py and config.py: the launcher
\* What the process is started with: API_ID and API_HASH as the environment
\* (after load_dotenv) holds them (Absent: not set; "": set to nothing),
\* whether python-dotenv can be imported, the interpreter's version, the
\* required packages (present, installed by pip, or pip failing) and the
\* presence of the four module files.
Envs ==
  [api_id : {Absent, "", "abc", "0", "12345"},
   api_hash : {Absent, "", "hash"},
   dotenv : BOOLEAN, python_ok : BOOLEAN,
   packages : {"present", "installed", "failed"}, files_ok : BOOLEAN]

\* int(os.getenv('API_ID', 0)): the default 0 when not set; int() of a text
\* that is no number raises ValueError.
ParseInt(v) ==
  IF v = Absent THEN [ok |-> TRUE, zero |-> TRUE]
  ELSE IF v \in {"", "abc"} THEN [ok |-> FALSE, zero |-> FALSE]
  ELSE [ok |-> TRUE, zero |-> (v = "0")]

\* os.getenv('API_HASH', '')
GetHash(v) == IF v = Absent THEN "" ELSE v

\* Executing config.py (lines 8-26): how the import ends.
Config(env) ==
  IF ~env.dotenv THEN "ImportError"
  ELSE IF ~ParseInt(env.api_id).ok THEN "ValueError"
  ELSE IF ParseInt(env.api_id).zero \/ GetHash(env.api_hash) = "" THEN "exit(1)"
  ELSE "ok"

LaunchExit(status) == [launcher EXCEPT !.pc = "ended", !.status = status]
LaunchGo(ok, pc) == IF ok THEN [launcher EXCEPT !.pc = pc] ELSE LaunchExit(1)

launch_frame == <<router_vars, manager, db, clock, agg_calls, ret, files, syncs,
                  exports>>

\* python main.py
LaunchStart ==
  /\ launcher.pc = "shell"
  /\ \E env \in Envs : launcher' = [launcher EXCEPT !.pc = "version", !.env = env]
  /\ UNCHANGED launch_frame

\* main.py lines 70-73: sys.version_info < (3, 7) -> sys.exit(1)
LaunchVersion ==
  /\ launcher.pc = "version"
  /\ launcher' = LaunchGo(launcher.env.python_ok, "packages")
  /\ UNCHANGED launch_frame

\* main.py lines 78-81: install_packages() or sys.exit(1)
LaunchPackages ==
  /\ launcher.pc = "packages"
  /\ launcher' = LaunchGo(launcher.env.packages # "failed", "files")
  /\ UNCHANGED launch_frame

\* main.py lines 84-85: check_files() or sys.exit(1)
LaunchFiles ==
  /\ launcher.pc = "files"
  /\ launcher' = LaunchGo(launcher.env.files_ok, "import")
  /\ UNCHANGED launch_frame

\* main.py line 92 up to bot.py line 26: `from bot import run_bot` runs
\* bot.py, whose `from config import ...` runs config.py. ImportError is
\* caught by line 94 (sys.exit(1)); exit(1) of config.py raises SystemExit,
\* which no except clause of lines 94-103 catches; any other exception is
\* caught by line 98, printed, and main() returns.
LaunchImportConfig ==
  /\ launcher.pc = "import"
  /\ LET c == Config(launcher.env)
     IN launcher' = CASE c = "ok" -> [launcher EXCEPT !.pc = "client"]
                      [] c = "ValueError" -> LaunchExit(0)
                      [] OTHER -> LaunchExit(1)
  /\ UNCHANGED launch_frame

\* bot.py line 34 and the rest of the import.
LaunchCreateClient ==
  /\ launcher.pc = "client"
  /\ launcher' = [launcher EXCEPT !.pc = "run_bot", !.client = TRUE]
  /\ UNCHANGED launch_frame

\* main.py line 93: run_bot() -> asyncio.run(main()) -> client.start()
LaunchRunBot ==
  /\ launcher.pc = "run_bot"
  /\ launcher' = [launcher EXCEPT !.pc = "running", !.started = TRUE]
  /\ UNCHANGED launch_frame

NextLaunch ==
  \/ LaunchStart
  \/ LaunchVersion
  \/ LaunchPackages
  \/ LaunchFiles
  \/ LaunchImportConfig
  \/ LaunchCreateClient
  \/ LaunchRunBot

SpecLaunch == Init /\ [][NextLaunch]_vars

\* --------------------------------- the pure functions, one call at a time
Zones == {"naive", "utc", "+02"}

\* What a dialog of the transport can look like: a display name that is
\* None, empty or a text; an entity of one of the classes, where a User has
\* no title attribute and the others have one (None, empty or a text); a
\* date that is None, naive or aware.
EntityShapes ==
  {[type |-> "User", title |-> Absent]}
  \cup {[type |-> ty, title |-> ti] :
          ty \in EntityTypes \ {"User"}, ti \in {None, "", "Team"}}
DialogShapes ==
  {[id |-> "c9", name |-> n, entity |-> e, date |-> d] :
     n \in {None, "", "Alice"}, e \in EntityShapes,
     d \in {NoDate} \cup {At(5, z) : z \in Zones}}

\* The body of the loop of get_all_chats on one dialog.
Normalize ==
  /\ \E d \in DialogShapes :
       ret' = [op |-> "chat_data", dialog |-> d,
               val |-> ChatData(Me, [name |-> "Tom"], d)]
  /\ UNCHANGED <<files, syncs, exports, launcher, router_vars, manager, db, clock, agg_calls>>

\* Instants, in seconds: a few seconds, minutes, hours, a day, a month and
\* a year apart.
Instants == {0, 30, 61, 3601, 86400, 31 * 86400, 366 * 86400}

\* format_timedelta of one timestamp at two instants, the second no earlier
\* than the first.
Format ==
  /\ \E t \in Instants, z \in Zones, now1 \in Instants, now2 \in Instants :
       /\ now1 <= now2
       /\ ret' = [op |-> "format_timedelta", dt |-> At(t, z),
                  now1 |-> now1, now2 |-> now2,
                  at1 |-> FormatTimedelta(At(t, z), now1),
                  at2 |-> FormatTimedelta(At(t, z), now2)]
  /\ UNCHANGED <<files, syncs, exports, launcher, router_vars, manager, db, clock, agg_calls>>


\* ---------------------------------------------------------- choose_handler
\* A text is the sequence of its characters.
Whitespace == {" "}

\* str.split(sep): the pieces between the separators, one more than there
\* are separators; cur is the piece being read.
RECURSIVE Split(_, _, _)
Split(s, sep, cur) ==
  IF s = <<>> THEN <<cur>>
  ELSE IF Head(s) = sep THEN <<cur>> \o Split(Tail(s), sep, <<>>)
  ELSE Split(Tail(s), sep, Append(cur, Head(s)))

\* str.strip(): leading and trailing whitespace removed.
RECURSIVE LStrip(_)
LStrip(s) == IF s # <<>> /\ Head(s) \in Whitespace THEN LStrip(Tail(s)) ELSE s
RECURSIVE RStrip(_)
RStrip(s) ==
  IF s # <<>> /\ s[Len(s)] \in Whitespace THEN RStrip(SubSeq(s, 1, Len(s) - 1))
  ELSE s
Strip(s) == RStrip(LStrip(s))

\* Line 948: items = [x.strip() for x in group(1).split(',')]
Items(arg) ==
  LET parts == Split(arg, ",", <<>>)
  IN [i \in 1..Len(parts) |-> Strip(parts[i])]

\* What (.+) of the trigger accepts: one character or more.
RECURSIVE Strings(_)
Strings(n) ==
  IF n = 0 THEN {<<>>}
  ELSE Strings(n - 1)
       \cup {Append(s, c) : s \in Strings(n - 1), c \in {"a", "b", ",", " "}}
ChooseArgs == Strings(MaxArgLen) \ {<<>>}

\* Lines 948-950: random.choice(items) picks any position of items.
Choose ==
  /\ \E arg \in ChooseArgs :
       \E i \in 1..Len(Items(arg)) :
         ret' = [op |-> "choose", arg |-> arg, items |-> Items(arg),
                 choice |-> Items(arg)[i]]
  /\ UNCHANGED <<files, syncs, exports, launcher, router_vars, manager, db, clock, agg_calls>>


\* ------------------------------------------------------------ mute_handler
\* A number of minutes is held the way timedelta(minutes=N) holds it: whole
\* days and the minutes left over. A datetime is its day (the proleptic
\* ordinal, 1 for 0001-01-01) and the minute of that day.
Minutes(d, m) == [days |-> d, minutes |-> m]
Zero == Minutes(0, 0)

\* datetime.max is 9999-12-31: its ordinal.
MaxOrdinal == 3652059

\* The instant the handler runs at: 2026-11-01 10:00.
MuteNow == [present |-> TRUE, day |-> 739921, minute |-> 600]
NoUntil == [present |-> FALSE, day |-> 0, minute |-> 0]

\* What (\d+) of the trigger can hold: nothing typed, 0, 5 minutes, a day
\* and a half, and a number of minutes that reaches past the year 9999.
MuteArgs == {Absent, "0", "5", "2160", "4320000000"}

\* int(group(1) or 0)
IntOfArg(arg) ==
  CASE arg = Absent -> Zero
    [] arg = "0" -> Zero
    [] arg = "5" -> Minutes(0, 5)
    [] arg = "2160" -> Minutes(1, 720)
    [] arg = "4320000000" -> Minutes(3000000, 0)

\* `minutes > 0` (line 594) and the truth value of `minutes` (line 610)
Positive(n) == n.days > 0 \/ n.minutes > 0
Truthy(n) == n # Zero

\* datetime.now() + timedelta(minutes=n); a day past datetime.max raises
\* OverflowError.
AddMinutes(now, n) ==
  LET total == now.minute + n.minutes
      day == now.day + n.days + total \div 1440
  IN IF day > MaxOrdinal THEN [ok |-> FALSE, val |-> NoUntil]
     ELSE [ok |-> TRUE,
           val |-> [present |-> TRUE, day |-> day, minute |-> total % 1440]]

Req(op, until) == [op |-> op, until |-> until]
Said(text, n) == [text |-> text, n |-> n]

\* The body of mute_handler (lines 588-612) when the transport calls it
\* makes succeed: the requests it issues, in order, and the reply it sends.
\* reply_to is what the message replies to ("gone": get_reply_message()
\* answers None, and reply.sender_id raises).
MuteHandler(is_reply, reply_to, arg, now) ==
  IF ~is_reply
  THEN [requests |-> <<>>, said |-> Said("Reply to a user.", Zero)]
  ELSE
    LET minutes == IntOfArg(arg)
        until == IF Positive(minutes) THEN AddMinutes(now, minutes)
                 ELSE [ok |-> TRUE, val |-> NoUntil]
        fetch == <<Req("get_reply_message", NoUntil)>>
    IN IF ~until.ok \/ reply_to = "gone"
       THEN [requests |-> fetch, said |-> Said("Error", Zero)]
       ELSE [requests |-> Append(fetch, Req("EditBannedRequest", until.val)),
             said |-> IF Truthy(minutes) THEN Said("for min", minutes)
                      ELSE Said("forever", Zero)]

\* One '.mute' of the owner.
Mute ==
  /\ \E is_reply \in BOOLEAN, reply_to \in {"text", "gone"}, arg \in MuteArgs :
       ret' = [op |-> "mute", is_reply |-> is_reply, reply_to |-> reply_to,
               arg |-> arg, now |-> MuteNow,
               val |-> MuteHandler(is_reply, reply_to, arg, MuteNow)]
  /\ UNCHANGED <<files, syncs, exports, launcher, router_vars, manager, db, clock,
                 agg_calls>>


\* ----------------------------------------------------------- purge_handler
\* The ids of a set of messages, oldest first.
RECURSIVE Ascending(_)
Ascending(S) ==
  IF S = {} THEN <<>>
  ELSE LET m == CHOOSE x \in S : \A y \in S : x <= y
       IN <<m>> \o Ascending(S \ {m})

\* client.iter_messages(chat, min_id=m, reverse=True): the messages of the
\* chat whose id is greater than m, oldest first.
IterMessages(chat, min_id) == Ascending({i \in chat : i > min_id})

\* Lines 486-491, '.purge' sent as a reply to the message reply_id that
\* still exists: the ids given to DeleteMessagesRequest and the count of
\* the reply.
PurgeReply(chat, reply_id) ==
  LET messages == <<reply_id>> \o IterMessages(chat, reply_id - 1)
  IN [deleted |-> messages, count |-> Len(messages)]

\* A chat holds the command message, which is its newest, the message it
\* replies to, and any of the ids in between and before.
Purge ==
  /\ \E chat \in SUBSET (1..MaxMsgs) :
       \E command \in chat, reply_id \in chat :
         /\ \A i \in chat : i <= command
         /\ reply_id < command
         /\ ret' = [op |-> "purge", chat |-> chat, reply_id |-> reply_id,
                    command |-> command, val |-> PurgeReply(chat, reply_id)]
  /\ UNCHANGED <<files, syncs, exports, launcher, router_vars, manager, db, clock,
                 agg_calls>>


\* ----------------------------------------------------- clear_chats_handler
\* The instant the handler runs at, in seconds, and the timestamps a record
\* can carry: none, 40 days old, exactly 30 days old, an hour old.
ClearNow == 400 * 86400
DateKinds == {"none", "old", "edge", "recent"}
DateOf(kind) ==
  CASE kind = "none" -> NoDate
    [] kind = "old" -> At(ClearNow - 40 * 86400, "naive")
    [] kind = "edge" -> At(ClearNow - 30 * 86400, "naive")
    [] kind = "recent" -> At(ClearNow - 3600, "naive")

\* What get_all_chats(limit=100) returned: one record per kind of the
\* sequence, numbered in order.
ChatsOf(kinds) ==
  [i \in 1..Len(kinds) |->
     [chat_id |-> i, title |-> "chat", last_message_date |-> DateOf(kinds[i])]]

RECURSIVE KindSeqs(_)
KindSeqs(n) ==
  IF n = 0 THEN {<<>>}
  ELSE KindSeqs(n - 1)
       \cup {Append(s, k) : s \in KindSeqs(n - 1), k \in DateKinds}

\* The first lines of the reply hold at most this many chats (inactive[:10]).
DisplayCap == 10

\* Aggregations around the cap: n old chats with one chat of any kind put
\* after the p-th of them.
LongKindSeqs ==
  {[i \in 1..(n + 1) |-> IF i = p + 1 THEN k ELSE "old"] :
     n \in (DisplayCap - 1)..(DisplayCap + 1), p \in 0..(DisplayCap - 1),
     k \in DateKinds}

\* A test that takes a record without a timestamp for inactive: not the
\* program's, kept to show what the property of the listing rests on.
IsInactiveOrUndated(chat, cutoff) ==
  ~chat.last_message_date.present \/ chat.last_message_date.wall < cutoff
\* Line 393: chat['last_message_date'] and chat['last_message_date'] < cutoff
IsInactive(chat, cutoff) ==
  chat.last_message_date.present /\ chat.last_message_date.wall < cutoff

\* The body of clear_chats_handler (lines 387-403) on what get_all_chats
\* returned: the calls it makes, the numbered lines of its reply (the first
\* DisplayCap inactive chats), and the "... and k more" count (0: no such
\* line). No line and no count is the reply "No inactive chats found.".
ClearChatsHandler(all_chats, days, now) ==
  LET cutoff == now - days * 86400
      inactive == SelectSeq(all_chats, LAMBDA c : IsInactive(c, cutoff))
      shown == SubSeq(inactive, 1, Min(Len(inactive), DisplayCap))
  IN [requests |-> <<"typing", "get_all_chats", "reply">>,
      lines |-> [i \in 1..Len(shown) |->
                   [i |-> i, chat_id |-> shown[i].chat_id,
                    title |-> shown[i].title,
                    last |-> FormatTimedelta(shown[i].last_message_date, now)]],
      more |-> IF Len(inactive) > DisplayCap THEN Len(inactive) - DisplayCap
               ELSE 0]

\* One '.clearchats N' of the owner.
ClearChats ==
  /\ \E kinds \in KindSeqs(MaxChats) \cup LongKindSeqs, days \in {0, 30} :
       ret' = [op |-> "clearchats", all_chats |-> ChatsOf(kinds), days |-> days,
               now |-> ClearNow,
               val |-> ClearChatsHandler(ChatsOf(kinds), days, ClearNow)]
  /\ UNCHANGED <<files, syncs, exports, launcher, router_vars, manager, db, clock,
                 agg_calls>>

NextPure ==
  \/ Normalize
  \/ Format
  \/ Choose
  \/ Mute
  \/ Purge
  \/ ClearChats

SpecPure == Init /\ [][NextPure]_vars

\* ========================= properties of the router ======================
\* What a task's log holds: one marker per callback the dispatch called
\* (i is the callback's position among the builders, arg the owner_id the
\* check read), then one entry per step of that callback that took place.
Checks == {"auth_ok", "auth_denied"}
LogOf(e) == tasks[e].log
Calls(e) == {k \in DOMAIN LogOf(e) : LogOf(e)[k].op \in Checks}
OkCalls(e) == {k \in DOMAIN LogOf(e) : LogOf(e)[k].op = "auth_ok"}
\* The calls whose event sender differs from the owner_id the check read.
NonOwnerCalls(e) == {k \in Calls(e) : tasks[e].sender # LogOf(e)[k].arg}
\* The entries the callback at builder position i logged after its marker.
StepsOf(e, i) ==
  {k \in DOMAIN LogOf(e) : LogOf(e)[k].i = i /\ LogOf(e)[k].op \notin Checks}
NonOwnerEvent(e) == Calls(e) # {} /\ NonOwnerCalls(e) = Calls(e)
Untouched ==
  /\ proc = "running"
  /\ client_vars = <<>>
  /\ db.chats = <<>>

\* C1: for an event whose sender_id differs from owner_id, whatever the
\* trigger, no handler body runs: the callback is refused and the only step
\* it ever takes is the fixed reply; while every event handled so far is of
\* that kind the process runs on, no variable is set and no chat row stored.
C1_NonOwnerNoBody ==
  /\ \A e \in DOMAIN tasks : \A k \in NonOwnerCalls(e) :
       /\ LogOf(e)[k].op = "auth_denied"
       /\ \A m \in StepsOf(e, LogOf(e)[k].i) : LogOf(e)[m].op = "unauth_reply"
  /\ (\A e \in DOMAIN tasks : NonOwnerCalls(e) = Calls(e)) => Untouched

\* A stranger's .shutdown has been dispatched to the end: refused, answered
\* with the fixed reply, and the process still runs.
C1_Witness ==
  \E e \in DOMAIN tasks :
    /\ tasks[e].done
    /\ tasks[e].sender = Stranger
    /\ tasks[e].text.word = ".shutdown"
    /\ Len(LogOf(e)) = 2
    /\ LogOf(e)[1].op = "auth_denied" /\ LogOf(e)[1].arg = Me
    /\ LogOf(e)[2].op = "unauth_reply"
    /\ proc = "running"

\* C2: an event that matches a trigger (.ai, .google and .search included)
\* and whose sender_id differs from owner_id produces exactly one reply, the
\* fixed "not authorized" text, and nothing else. Stated for dispatches that
\* ran to the end after owner_id was set, without any call raising.
C2_OneRefusalReply ==
  \A e \in DOMAIN tasks :
    (/\ tasks[e].done /\ tasks[e].raised = 0
     /\ NonOwnerEvent(e)
     /\ \A k \in Calls(e) : LogOf(e)[k].arg = Me) =>
      /\ Cardinality({k \in DOMAIN LogOf(e) : LogOf(e)[k].op = "unauth_reply"}) = 1
      /\ \A k \in DOMAIN LogOf(e) : LogOf(e)[k].op \in Checks \cup {"unauth_reply"}

\* C3: at every point of the process lifetime a handler body runs only for
\* an event whose sender_id is the authenticated account's id; while
\* owner_id is unset no event is treated as authorized.
C3_OnlyAuthenticatedSender ==
  \A e \in DOMAIN tasks : \A k \in OkCalls(e) :
    /\ tasks[e].sender = Me
    /\ LogOf(e)[k].arg # None

\* C4: an event from the owner that matches a trigger invokes exactly one
\* handler body, .ai, .google and .search after start-up included. Stated
\* for dispatches in which no call raised.
C4_ExactlyOneHandler ==
  \A e \in DOMAIN tasks :
    (tasks[e].sender = Me /\ tasks[e].raised = 0) =>
      /\ Cardinality(OkCalls(e)) <= 1
      /\ (tasks[e].done /\ tasks[e].text \in TriggerTexts
          /\ \A k \in Calls(e) : LogOf(e)[k].arg = Me)
         => Cardinality(OkCalls(e)) = 1

\* C5: an error raised while a handler runs for an owner event is caught at
\* the handler boundary and turned into one reply carrying the error text;
\* no error leaves the callback.
C5_ErrorsCaught ==
  \A e \in DOMAIN tasks :
    (tasks[e].sender = Me /\ OkCalls(e) # {}) =>
      /\ tasks[e].escaped = 0
      /\ (tasks[e].done /\ tasks[e].raised > 0) =>
           \E k \in DOMAIN LogOf(e) : LogOf(e)[k].op = "error_reply"

\* C6: for an owner command the order is the authorization check, then the
\* typing indicator, then the handler's first reply or send: every step a
\* callback takes other than the typing indicator comes after the typing
\* indicator of that callback, which comes right after its check passed;
\* a refused callback never shows the typing indicator.
C6_CheckTypingReply ==
  \A e \in DOMAIN tasks : \A k \in DOMAIN LogOf(e) :
    LET en == LogOf(e)[k]
        okAt(m) == LogOf(e)[m].i = en.i /\ LogOf(e)[m].op = "auth_ok"
    IN CASE en.op \in Checks -> TRUE
         [] en.op = "unauth_reply" ->
              k > 1 /\ LogOf(e)[k - 1].i = en.i /\ LogOf(e)[k - 1].op = "auth_denied"
         [] en.op = "typing" -> k > 1 /\ okAt(k - 1)
         [] OTHER ->
              \E m \in 1..(k - 1) :
                /\ LogOf(e)[m].i = en.i /\ LogOf(e)[m].op = "typing"
                /\ m > 1 /\ okAt(m - 1)

\* An owner's .ping has run to the end: check, typing, reply, edit.
C6_Witness ==
  \E e \in DOMAIN tasks :
    /\ tasks[e].done
    /\ tasks[e].sender = Me
    /\ tasks[e].text.word = ".ping"
    /\ Len(LogOf(e)) = 4
    /\ LogOf(e)[1].op = "auth_ok" /\ LogOf(e)[1].arg = Me
    /\ LogOf(e)[2].op = "typing"
    /\ LogOf(e)[3].op = "reply"
    /\ LogOf(e)[4].op = "edit"

\* C7: an event, from the owner or anyone else, whose text matches no
\* trigger (unknown word, wrong case, missing argument, text after an
\* argument-less command) causes nothing: no callback is called, so no
\* reply, typing indicator or transport call; while every event so far is of
\* that kind no call was made, no variable set, no chat row stored, and the
\* registry holds only what start-up put there.
C7_UnmatchedNoEffect ==
  /\ \A e \in DOMAIN tasks :
       tasks[e].text \in OtherTexts =>
         /\ LogOf(e) = <<>>
         /\ tasks[e].done /\ tasks[e].steps = <<>>
         /\ tasks[e].raised = 0
  /\ (\A e \in DOMAIN tasks : tasks[e].text \in OtherTexts) =>
       /\ Untouched
       /\ failures = 0
       /\ manager.active_accounts = IF main_pc = "running" THEN <<Me>> ELSE <<>>

\* The owner's ".ping x" has been delivered after start-up and left no trace.
C7_Witness ==
  \E e \in DOMAIN tasks :
    /\ tasks[e].sender = Me
    /\ tasks[e].text = T(".ping", "word")
    /\ tasks[e].done
    /\ LogOf(e) = <<>>
    /\ main_pc = "running"

\* ==================== properties of the manager and the store ============
NoRepeat(s) == \A i, j \in DOMAIN s : i # j => s[i] # s[j]

\* Every call made so far was an add_account that succeeded.
OnlyRegistrations == agg_calls > 0 /\ db.accounts_seq = agg_calls

\* listChats over all accounts with the default limit, no listing failing.
ListAll ==
  GetAllChats(manager.accounts, manager.active_accounts, None, 50,
              [i \in DOMAIN manager.active_accounts |-> NoFail])

\* C8: add_account is idempotent on the registry: after any number of
\* successful registrations no account_id is held twice, so that listing
\* the chats of all accounts returns each chat of an account once.
C8_RegisterIdempotent ==
  OnlyRegistrations =>
    /\ NoRepeat(manager.active_accounts)
    /\ \A i, j \in DOMAIN ListAll :
         i # j => <<ListAll[i].chat_id, ListAll[i].account_id>>
                  # <<ListAll[j].chat_id, ListAll[j].account_id>>

\* C9: after any sequence of sync_chats_to_db calls the chats table holds at
\* most one row for each pair (chat_id, account_id). Stated for a registry
\* that holds no account twice.
C9_OneRowPerChat ==
  NoRepeat(manager.active_accounts) =>
    \A i, j \in DOMAIN db.chats :
      i # j => <<db.chats[i].chat_id, db.chats[i].account_id>>
               # <<db.chats[j].chat_id, db.chats[j].account_id>>

\* C10: when the listing of one account fails, at the request or at the
\* k-th dialog, get_all_chats returns no record of that account and every
\* record of each account whose listing succeeded. Stated for a call that
\* checks no account twice.
C10_FailedListingAddsNothing ==
  (ret.op = "get_all_chats" /\ NoRepeat(ret.to_check)) =>
    \A i \in DOMAIN ret.to_check :
      LET a == ret.to_check[i]
          recs == SelectSeq(ret.val, LAMBDA r : r.account_id = a)
      IN a \in DOMAIN manager.accounts =>
           IF Failed(ret.fail[i], ret.limit) THEN recs = <<>>
           ELSE recs = AccountChats(a, manager.accounts[a], ret.limit, NoFail)

\* The rows of the chats table that call c wrote.
RowsOf(c) ==
  {k \in DOMAIN db.chats : db.chats[k].last_accessed \in syncs[c].stamps}

\* C13: sync_chats_to_db returns the number of chat rows it wrote during
\* this call, whatever the table held before and whatever earlier calls
\* wrote; when two calls interleave each returns the count of its own writes.
C13_CountOfOwnWrites ==
  \A c \in DOMAIN syncs :
    syncs[c].done => syncs[c].val = Cardinality(RowsOf(c))

\* Two calls ran at the same time over two active accounts: the second
\* started while the first was suspended, both wrote rows, both returned,
\* and the table held rows before either began to write its last ones.
C13_Witness ==
  /\ Len(syncs) = 2
  /\ syncs[1].done /\ syncs[2].done
  /\ Len(manager.active_accounts) = 2
  /\ syncs[1].val > 0 /\ syncs[2].val > 0
  /\ syncs[1].val # syncs[2].val
  /\ \E a \in syncs[1].stamps, b \in syncs[2].stamps, a2 \in syncs[1].stamps :
       a < b /\ b < a2

\* C14: when the sync of one account fails (its listing fails or one of its
\* store writes raises) sync_chats_to_db goes on to every later account:
\* each account whose sync does not fail has all its chats written and
\* counted in this call, and its last_sync set.
C14_SyncGoesOn ==
  ret.op = "sync_chats_to_db" =>
    LET active == manager.active_accounts
        page == GetDialogs(SyncLimit)
        new == SubSeq(db.chats, Len(ret.before.chats) + 1, Len(db.chats))
        good == {i \in DOMAIN active : ret.modes[i] = NoFail}
    IN /\ \A i \in good :
            /\ \A j \in DOMAIN page : \E k \in DOMAIN new :
                 new[k].account_id = active[i] /\ new[k].chat_id = page[j].id
            /\ \A k \in DOMAIN db.accounts :
                 db.accounts[k].account_id = active[i] =>
                   db.accounts[k].last_sync = clock - 1
       /\ ret.val >= Len(page) * Cardinality(good)
       /\ Len(new) >= Len(page) * Cardinality(good)

\* Two accounts are active, the listing of the first failed, and the chats
\* of the second were written and counted.
C14_Witness ==
  /\ ret.op = "sync_chats_to_db"
  /\ Len(manager.active_accounts) = 2
  /\ manager.active_accounts[1] # manager.active_accounts[2]
  /\ ret.modes[1].kind = "request" /\ ret.modes[2] = NoFail
  /\ ret.val = Len(Dialogs)
  /\ Len(db.chats) = Len(ret.before.chats) + Len(Dialogs)

\* C15: the page size asked of the transport for each account is
\* min(limit, 100); one account returns at most that many records, while the
\* total over k accounts may exceed limit and is bounded by k pages.
C15_PageSize ==
  ret.op = "get_all_chats" =>
    LET cap == IF ret.limit < 100 THEN ret.limit ELSE 100
        k == Len(ret.to_check)
        of(a) == {j \in DOMAIN ret.val : ret.val[j].account_id = a}
        at(a) == {i \in DOMAIN ret.to_check : ret.to_check[i] = a}
    IN /\ ret.page = cap
       /\ \A a \in Ids : Cardinality(of(a)) <= cap * Cardinality(at(a))
       /\ Len(ret.val) <= k * cap

\* Two accounts were listed with limit 1 and the result holds two records.
C15_Witness ==
  /\ ret.op = "get_all_chats"
  /\ ret.limit = 1
  /\ Len(ret.to_check) = 2
  /\ Len(ret.val) = 2

\* C16: with an explicit account get_all_chats returns records of that
\* account only, and none, without any transport call, when it is not
\* registered; without one it returns the records of every active
\* registration in registration order, each account's records one block in
\* the order the transport returned them (stated for listings that succeed).
C16_OrderAndScope ==
  ret.op = "get_all_chats" =>
    /\ ret.account_id # None =>
         /\ \A j \in DOMAIN ret.val : ret.val[j].account_id = ret.account_id
         /\ ret.account_id \notin DOMAIN manager.accounts =>
              ret.val = <<>> /\ ret.requests = 0
    /\ (ret.account_id = None /\ AllOk(ret.fail)) =>
         LET active == manager.active_accounts
             page == GetDialogs(IF ret.limit < 100 THEN ret.limit ELSE 100)
             n == Len(page)
         IN /\ Len(ret.val) = n * Len(active)
            /\ ret.requests = Len(active)
            /\ \A i \in DOMAIN active : \A j \in 1..n :
                 /\ ret.val[(i - 1) * n + j].account_id = active[i]
                 /\ ret.val[(i - 1) * n + j].chat_id = page[j].id

\* Two different accounts are registered and all their chats were listed.
C16_Witness ==
  /\ ret.op = "get_all_chats"
  /\ ret.account_id = None /\ AllOk(ret.fail)
  /\ Len(manager.active_accounts) = 2
  /\ manager.active_accounts[1] # manager.active_accounts[2]
  /\ Len(ret.val) = 2 * Len(Dialogs)

\* ==================== properties of the normalisation ====================
Flags(r) == {f \in {"is_user", "is_group", "is_channel"} : r[f]}

\* C11: every record of get_all_chats is classified as exactly one of
\* person, group, channel: whatever class the entity is of, exactly one of
\* is_user, is_group, is_channel is true.
C11_ExactlyOneKind ==
  ret.op = "chat_data" => Cardinality(Flags(ret.val)) = 1

\* C12: the title of a record is the dialog's name when present, else the
\* entity's title when present, else "Unknown"; it is never null or empty,
\* also when the entity has a title whose value is null or empty.
C12_TitleNeverEmpty ==
  ret.op = "chat_data" =>
    LET d == ret.dialog
    IN /\ ~Falsy(ret.val.title)
       /\ ret.val.title =
            IF ~Falsy(d.name) THEN d.name
            ELSE IF d.entity.title # Absent /\ ~Falsy(d.entity.title)
              THEN d.entity.title
            ELSE "Unknown"

\* C17: the last-message timestamp of every record is absent or naive: a
\* timestamp delivered with zone information is stripped of it before the
\* record is built.
C17_NaiveTimestamps ==
  ret.op = "chat_data" =>
    LET d == ret.val.last_message_date
    IN /\ d.present => d.tz = "naive"
       /\ d.present = ret.dialog.date.present

\* A dialog whose date came with a zone has been normalised.
C17_Witness ==
  /\ ret.op = "chat_data"
  /\ ret.dialog.date.present /\ ret.dialog.date.tz = "utc"
  /\ ret.val.last_message_date = At(5, "naive")

Rank(unit) ==
  CASE unit = "just now" -> 0 [] unit = "minutes" -> 1 [] unit = "hours" -> 2
    [] unit = "days" -> 3 [] unit = "months" -> 4 [] unit = "years" -> 5

\* C18: relative formatting is monotonic: for every timestamp t and instants
\* now1 <= now2 the bucket reported at now2 is never smaller than the one
\* reported at now1, also for a t that lies after now1.
C18_FormatMonotonic ==
  ret.op = "format_timedelta" => Rank(ret.at1.unit) <= Rank(ret.at2.unit)

\* C19: for every snapshot of n >= 1 records, '.exportchats csv' writes a
\* file with exactly n data rows after the header, '.exportchats json'
\* writes an array of exactly n elements, and the count of the confirmation
\* message is n.
C19_ExportCount ==
  \A e \in DOMAIN exports :
    LET x == exports[e]
        n == Len(x.all_chats)
    IN /\ x.filename # NoFile => n >= 1 /\ Records(x.fmt, x.wrote) = n
       /\ x.reported # -1 => x.filename # NoFile /\ x.reported = n
       /\ (n >= 1 /\ x.done /\ x.raised = 0) =>
            x.filename # NoFile /\ x.reported = n

\* An export to CSV of a snapshot of one record or more ran to its end.
C19_Witness ==
  \E e \in DOMAIN exports :
    /\ exports[e].fmt = "csv"
    /\ exports[e].done
    /\ exports[e].reported >= 1
    /\ Records("csv", exports[e].sent) = exports[e].reported

\* C20: once the export handler has finished, on any path (success, or an
\* error while sending the attachment), the file it created no longer
\* exists.
C20_FileRemoved ==
  \A e \in DOMAIN exports :
    (exports[e].done /\ exports[e].filename # NoFile) =>
      exports[e].filename \notin DOMAIN files

\* C27: add_account is all-or-nothing: whenever it returns None (get_me
\* failed or the store write raised) the registry (accounts, active_accounts,
\* main_account_added) is as it was before the call.
C27_AddAccountAllOrNothing ==
  (ret.op = "add_account" /\ ret.val = None) => manager = ret.before

\* C29: after sync_chats_to_db the last_sync of an account is advanced only
\* when the listing of that account succeeded in this call; an account whose
\* listing failed at the request (and so contributed no row) keeps the
\* last_sync it had.
C29_LastSyncOnlyOnSuccess ==
  ret.op = "sync_chats_to_db" =>
    \A k \in DOMAIN db.accounts :
      LET active == manager.active_accounts
          at == {i \in DOMAIN active : active[i] = db.accounts[k].account_id}
      IN (at # {} /\ \A i \in at : ret.modes[i].kind = "request") =>
           db.accounts[k].last_sync = ret.before.accounts[k].last_sync

\* C24: for every argument the '.choose' trigger accepts, the item named in
\* the reply is one of the comma-separated items of the argument after
\* trimming, it is never the empty string, and it is never a value outside
\* the given items.
C24_ChooseOneOfItems ==
  ret.op = "choose" =>
    /\ \E i \in DOMAIN ret.items : ret.choice = ret.items[i]
    /\ ret.choice # <<>>

\* A credential that has no value: not set, or set to nothing.
NoValue(v) == v = Absent \/ v = ""

\* C25: when API_ID or API_HASH is absent at startup the process exits with
\* a failure status before the transport client is created, before any
\* connection is started and before any handler can run; the launcher does
\* not catch the exit and go on.
C25_MissingCredentialHalts ==
  (NoValue(launcher.env.api_id) \/ NoValue(launcher.env.api_hash)) =>
    /\ ~launcher.client
    /\ ~launcher.started
    /\ launcher.pc \notin {"client", "run_bot", "running"}
    /\ launcher.pc = "ended" => launcher.status = 1

\* The ban requests a handler call issued.
Bans(requests) == SelectSeq(requests, LAMBDA r : r.op = "EditBannedRequest")

\* C23: for an owner '.mute' sent as a reply to a message: with the duration
\* absent or 0 the target is banned with no expiry and the reply says
\* "forever"; with a duration N > 0 the ban expires N minutes after now and
\* the reply says "for N min"; the text of the reply always agrees with the
\* expiry sent. When '.mute' is not a reply, no ban request is issued.
C23_MuteExpiryAndReply ==
  ret.op = "mute" =>
    LET n == IntOfArg(ret.arg)
        bans == Bans(ret.val.requests)
    IN IF ~ret.is_reply THEN bans = <<>>
       ELSE ret.reply_to = "text" =>
         /\ Len(bans) = 1
         /\ IF n = Zero
            THEN /\ ~bans[1].until.present
                 /\ ret.val.said = Said("forever", Zero)
            ELSE /\ bans[1].until.present
                 /\ bans[1].until.day * 1440 + bans[1].until.minute
                    = (ret.now.day + n.days) * 1440 + ret.now.minute + n.minutes
                 /\ ret.val.said = Said("for min", n)

\* C30: for '.purge' sent as a reply, the ids passed to the delete request
\* hold every message from the replied-to one up to the newest, each exactly
\* once, and the count of the "Purged N messages" reply is the number of
\* distinct messages in that request.
C30_PurgeEachOnce ==
  ret.op = "purge" =>
    LET deleted == ret.val.deleted
        ids == {deleted[i] : i \in DOMAIN deleted}
    IN /\ ids = {i \in ret.chat : i >= ret.reply_id}
       /\ \A i, j \in DOMAIN deleted : i # j => deleted[i] # deleted[j]
       /\ ret.val.count = Cardinality(ids)

\* The records '.clearchats N' is to report: the timestamp is present and
\* earlier than now minus N days. In the order of the aggregation.
Candidates(r) ==
  SelectSeq(r.all_chats,
            LAMBDA c : /\ c.last_message_date.present
                       /\ c.last_message_date.wall < r.now - r.days * 86400)

\* The calls of a handler that only reports.
ReadOnly == {"typing", "get_all_chats", "reply"}

ListedIds(r) == [i \in DOMAIN r.val.lines |-> r.val.lines[i].chat_id]
IdsOf(chats) == [i \in DOMAIN chats |-> chats[i].chat_id]

\* C26 as stated: '.clearchats N' only reports candidates: it lists exactly
\* the records whose timestamp is present and earlier than now minus N days,
\* and makes no delete, leave or archive call and no store write.
C26_ListsExactlyCandidates ==
  ret.op = "clearchats" =>
    /\ ListedIds(ret) = IdsOf(Candidates(ret))
    /\ \A i \in DOMAIN ret.val.requests : ret.val.requests[i] \in ReadOnly

\* C26 as amended: '.clearchats N' only reports candidates: it lists, in the
\* order of the aggregation, the first 10 of the records whose timestamp is
\* present and earlier than now minus N days and states how many more there
\* are, and makes no delete, leave or archive call and no store write.
C26_ListsFirstCandidates ==
  ret.op = "clearchats" =>
    LET cand == IdsOf(Candidates(ret))
        n == Len(cand)
    IN /\ ListedIds(ret) = SubSeq(cand, 1, IF n < 10 THEN n ELSE 10)
       /\ ret.val.more = (IF n > 10 THEN n - 10 ELSE 0)
       /\ \A i \in DOMAIN ret.val.requests : ret.val.requests[i] \in ReadOnly

\* An aggregation of twelve records, eleven of them candidates and one
\* without a timestamp, was reported: ten lines and "1 more".
C26_Witness ==
  /\ ret.op = "clearchats"
  /\ Len(ret.all_chats) = 12
  /\ Len(Candidates(ret)) = 11
  /\ \E i \in DOMAIN ret.all_chats : ~ret.all_chats[i].last_message_date.present
  /\ Len(ret.val.lines) = 10
  /\ ret.val.more = 1

\* The handler of task e has been called and has not returned.
InFlight(e) ==
  /\ \E k \in DOMAIN tasks[e].log : tasks[e].log[k].op = "auth_ok"
  /\ ~tasks[e].done

\* C22: an in-flight long-running handler cannot be aborted by a later
\* command: once a .timer N, .remind or .broadcast handler has started it
\* performs its final step whatever is received afterwards, transport calls
\* succeeding. A process that has ended takes no step, so no handler that
\* started before every other command is in flight when the process ends.
C22_NoAbortByLaterCommand ==
  (tasks # <<>> /\ tasks[1].text \in LongTexts /\ proc # "running") =>
    ~InFlight(1)

\* Has task e logged a call of this kind?
Did(e, op) == \E k \in DOMAIN tasks[e].log : tasks[e].log[k].op = op

\* C21: handlers are not serialized: while a handler is suspended (the typing
\* delay, the wait of .remind, a tick of .timer, the pacing of .broadcast, a
\* transport call) a later owner command is dispatched and can run to its
\* end and reply before the suspended handler resumes. At every moment of a
\* running process the next command can be dispatched, and every handler
\* that has not returned can take its next step, whatever the others await.
C21_HandlersNotSerialized ==
  proc = "running" =>
    /\ (main_pc # "start" /\ Len(tasks) < MaxCommands) => ENABLED ReceiveCommand
    /\ \A e \in DOMAIN tasks :
         (~tasks[e].done /\ tasks[e].steps # <<>>) =>
           ENABLED (StepOk(e) \/ StepList(e))

\* A long-running handler has replied and is suspended in its wait, and the
\* command delivered after it has run to its end and replied.
C21_Witness ==
  /\ proc = "running"
  /\ Len(tasks) = 2
  /\ tasks[1].text \in LongTexts
  /\ InFlight(1) /\ Did(1, "reply")
  /\ Head(tasks[1].steps).op = "sleep"
  /\ tasks[2].done /\ Did(2, "reply")

\* C28: two '.exportchats' commands of the same format whose handlers
\* interleave do not interfere: each sends a file holding its own snapshot,
\* neither deletes or overwrites the file the other is still about to send,
\* and both end with their success confirmation. Stated for runs in which no
\* transport call fails.
C28_ExportsDoNotInterfere ==
  \A e \in DOMAIN exports :
    LET x == exports[e]
    IN (failures = 0 /\ x.filename # NoFile) =>
         /\ (~x.done /\ Head(x.steps).op = "send_file") =>
              /\ x.filename \in DOMAIN files
              /\ files[x.filename] = x.wrote
         /\ x.sent # <<>> => x.sent = x.wrote
         /\ x.done => x.reported = Len(x.all_chats)

====
